---- MODULE Spec2Model ----
(***************************************************************************)
(* Model of src/constraintPropagation.ts: arc consistency (AC-3) for       *)
(* binary constraint satisfaction problems.                                *)
(*                                                                         *)
(* A CSP is a record of domains (Variable -> sequence of values) and arcs  *)
(* (a sequence of [relation, constraint]).  ac3 is modelled one loop       *)
(* iteration per step; makeArcsSymmetric, arcsWithRespectTo, revise and    *)
(* pruneDomain are operators computed the way the code computes them.      *)
(***************************************************************************)
EXTENDS Naturals, Sequences, FiniteSets

\* ---------------------------------------------------------------- bounds
\* Domain values are the integers 0 .. MaxVal (0 is a value of T like any other).
MaxVal == 2
\* Longest domain handed to a single call of revise.
MaxLen == 2
\* Longest arc sequence handed to a single call of makeArcsSymmetric.
MaxArcs == 2
\* ac3 is explored on every CSP of up to three variables with these domain
\* lengths and these numbers of arcs (the number of such CSPs grows with the
\* cube of the number of domains, so they are kept apart from MaxLen, MaxArcs).
ProblemLengths == 0 .. 2
ProblemArcs == 0 .. 2

\* ------------------------------------------------------------ data model
\* type Variable = string (line 14)
Variables == {"A", "B", "C"}

Val == 0 .. MaxVal

\* The predicates a caller puts in constraint: (x: T, y: T) => boolean.
\* A constraint value is a closure: the caller's predicate fn, wrapped or
\* not by the argument swap that makeArcsSymmetric builds (line 51).
Predicates == {"eq", "lt", "never"}

Constraints == [fn : Predicates, swap : BOOLEAN]

\* Calling a caller-supplied predicate.
CallPredicate(fn, x, y) ==
    CASE fn = "eq" -> x = y
      [] fn = "lt" -> x < y
      [] fn = "never" -> FALSE

\* arc.constraint(x, y): the wrapper (x, y) => arc.constraint(y, x) calls
\* the wrapped predicate with its arguments exchanged.
Call(constraint, x, y) ==
    IF constraint.swap
        THEN CallPredicate(constraint.fn, y, x)
        ELSE CallPredicate(constraint.fn, x, y)

\* type Arc<T> (lines 9-12)
Arc == [relation : Variables \X Variables, constraint : Constraints]

\* Arcs as a caller writes them: the predicate is not wrapped.
InputArc == {a \in Arc : a.constraint.swap = FALSE}

SeqsOfLength(S, lengths) == UNION {[1 .. k -> S] : k \in lengths}

SeqsUpTo(S, n) == SeqsOfLength(S, 0 .. n)

Range(s) == {s[i] : i \in 1 .. Len(s)}

\* ------------------------------------------------------------- functions
\* Array.prototype.find: the first element satisfying the predicate, or
\* undefined.  P is the set of elements satisfying it.
Find(array, P) ==
    IF \E i \in 1 .. Len(array) : array[i] \in P
        THEN LET i == CHOOSE j \in 1 .. Len(array) :
                        /\ array[j] \in P
                        /\ \A k \in 1 .. (j - 1) : array[k] \notin P
             IN  [undefined |-> FALSE, value |-> array[i]]
        ELSE [undefined |-> TRUE, value |-> 0]

\* JavaScript's ToBoolean on the result of find over numbers: undefined and
\* 0 are falsy.
Truthy(found) == ~found.undefined /\ found.value # 0

\* (x, y) => constraint(y, x) (line 51): one more argument swap around the
\* predicate; two swaps call it with the arguments in their first order.
Swapped(constraint) == [constraint EXCEPT !.swap = ~@]

\* Variant of Reversed: the reverse arc is given the constraint itself.
ReversedSameConstraint(arc) ==
    [relation |-> <<arc.relation[2], arc.relation[1]>>,
     constraint |-> arc.constraint]

\* The arc pushed for arc by makeArcsSymmetric (lines 47-52).
Reversed(arc) ==
    [relation |-> <<arc.relation[2], arc.relation[1]>>,
     constraint |-> Swapped(arc.constraint)]

\* makeArcsSymmetric (lines 43-56): forEach visits the n elements the copy
\* had when the pass began; the visit of element i pushes its reverse.
RECURSIVE SymmetricPass(_, _, _)
SymmetricPass(arcs, i, n) ==
    IF i > n THEN arcs
    ELSE SymmetricPass(Append(arcs, Reversed(arcs[i])), i + 1, n)

makeArcsSymmetric(arcsArg) == SymmetricPass(arcsArg, 1, Len(arcsArg))

\* Variant of arcsWithRespectTo: line 63 tests arc.relation[0].
arcsWithRespectToPruned(variable, csp) ==
    SelectSeq(csp.arcs, LAMBDA arc : variable = arc.relation[1])

\* arcsWithRespectTo (lines 59-65): filters csp.arcs.
arcsWithRespectTo(variable, csp) ==
    SelectSeq(csp.arcs, LAMBDA arc : variable = arc.relation[2])

\* Variant of pruneDomain: the domain is not emptied first (line 92).
pruneDomainNotEmptied(domain, valuesToRemove) ==
    domain \o SelectSeq(domain, LAMBDA val : val \notin valuesToRemove)

\* Variant of pruneDomain: the test of line 95 is inverted.
pruneDomainInverted(domain, valuesToRemove) ==
    SelectSeq(domain, LAMBDA val : val \in valuesToRemove)

\* pruneDomain (lines 89-99)
pruneDomain(domain, valuesToRemove) ==
    SelectSeq(domain, LAMBDA val : val \notin valuesToRemove)

\* The Set filled by the forEach of revise (lines 76-81).
ValuesToRemove(arc, prunedDomain, respectDomain) ==
    {pruneVal \in Range(prunedDomain) :
        ~Truthy(Find(respectDomain,
                     {respectVal \in Val : Call(arc.constraint, pruneVal, respectVal)}))}

\* Variant of revise: line 83 prunes respectDomain instead of prunedDomain.
revisePrunesRespect(arc, csp) ==
    LET prunedVariable == arc.relation[1]
        respectVariable == arc.relation[2]
        prunedDomain == csp.domains[prunedVariable]
        respectDomain == csp.domains[respectVariable]
        valuesToRemove == ValuesToRemove(arc, prunedDomain, respectDomain)
    IN  [domains |-> [csp.domains EXCEPT
                        ![respectVariable] = pruneDomain(respectDomain, valuesToRemove)],
         revised |-> valuesToRemove # {}]

\* Variant of revise: revised starts as true (line 74).
reviseStartsTrue(arc, csp) ==
    LET prunedVariable == arc.relation[1]
        respectVariable == arc.relation[2]
        prunedDomain == csp.domains[prunedVariable]
        respectDomain == csp.domains[respectVariable]
        valuesToRemove == ValuesToRemove(arc, prunedDomain, respectDomain)
    IN  [domains |-> [csp.domains EXCEPT
                        ![prunedVariable] = pruneDomain(prunedDomain, valuesToRemove)],
         revised |-> TRUE]

\* revise (lines 68-86): the domains after the call and the value returned.
revise(arc, csp) ==
    LET prunedVariable == arc.relation[1]
        respectVariable == arc.relation[2]
        prunedDomain == csp.domains[prunedVariable]
        respectDomain == csp.domains[respectVariable]
        valuesToRemove == ValuesToRemove(arc, prunedDomain, respectDomain)
    IN  [domains |-> [csp.domains EXCEPT
                        ![prunedVariable] = pruneDomain(prunedDomain, valuesToRemove)],
         revised |-> valuesToRemove # {}]

\* ----------------------------------------------------------------- state
VARIABLES
    csp,        \* the CSP of the caller: [domains, arcs]
    arcQueue,   \* the local arcQueue of ac3; the value makeArcsSymmetric returned
    pc,         \* what the caller does next or ac3's position: "ac3", "loop"
                \* (line 20), "done" (ac3 returned), "revise",
                \* "makeArcsSymmetric", "revise returned",
                \* "makeArcsSymmetric returned"
    result,     \* the boolean returned by the call that last returned
    calls,      \* number of calls of ac3 begun so far
    initial,    \* history: the CSP as the caller constructed it
    first,      \* history: <<>>, or <<the domains the first call of ac3 left>>
    revised     \* history: <<>>, or <<the last call of revise>>

vars == <<csp, arcQueue, pc, result, calls, initial, first, revised>>

\* The variables that the arcs name.
Named(arcs) ==
    UNION {{arcs[i].relation[1], arcs[i].relation[2]} : i \in 1 .. Len(arcs)}

\* Variables are opaque names that the code only compares with ===, so the
\* CSPs given to ac3 are enumerated up to renaming: reading the relations of
\* csp.arcs left to right, the variables make their first appearance in the
\* order of VariableOrder.
VariableOrder == <<"A", "B", "C">>

Position(variable) ==
    CHOOSE k \in 1 .. Len(VariableOrder) : VariableOrder[k] = variable

Mentions(arcs) ==
    [j \in 1 .. 2 * Len(arcs) |-> arcs[(j + 1) \div 2].relation[2 - (j % 2)]]

FirstUseInOrder(arcs) ==
    LET m == Mentions(arcs)
    IN  \A j \in 1 .. Len(m) :
            \/ Position(m[j]) = 1
            \/ \E k \in 1 .. (j - 1) : Position(m[k]) >= Position(m[j]) - 1

\* csp.variables: the variables the arcs name; a CSP has at least one variable.
CspVariables(arcs) == Named(arcs) \cup {VariableOrder[1]}

\* What is not the CSP, before any call.
Idle ==
    /\ arcQueue = <<>>
    /\ result = TRUE
    /\ calls = 0
    /\ initial = csp
    /\ first = <<>>
    /\ revised = <<>>

\* A caller about to call ac3(csp).
Init ==
    /\ \E arcs \in SeqsOfLength(InputArc, ProblemArcs) :
          /\ FirstUseInOrder(arcs)
          /\ \E domains \in [CspVariables(arcs) -> SeqsOfLength(Val, ProblemLengths)] :
                csp = [domains |-> domains, arcs |-> arcs]
    /\ pc = "ac3"
    /\ Idle

\* ac3 is entered (line 18).  The caller calls it once, and once more on the
\* pruned CSP when the first call returned true.
Ac3Call ==
    /\ pc = "ac3" \/ (pc = "done" /\ calls = 1 /\ result = TRUE)
    /\ arcQueue' = makeArcsSymmetric(csp.arcs)
    /\ pc' = "loop"
    /\ calls' = calls + 1
    /\ first' = IF pc = "done" THEN <<csp.domains>> ELSE first
    /\ revised' = <<>>
    /\ UNCHANGED <<csp, result, initial>>

\* Variant of Shifted: pop for shift, the queue loses its last element.
ShiftedLast(queue) == SubSeq(queue, 1, Len(queue) - 1)

\* Variant of Shifted: the first element is read and left in the queue.
ShiftedNot(queue) == queue

\* arcQueue.shift() (line 21) leaves the queue without its first element.
Shifted(queue) == Tail(queue)

\* Variant of Wipeout: the test of line 25 never succeeds.
WipeoutMissed(domain) == FALSE

\* The wipeout test of line 25.
Wipeout(domain) == Len(domain) = 0

\* The record kept of a call revise(arc, csp) that returned r: the arc, the
\* domains before and after, the value returned, and the arcQueue the arc was
\* taken from.
ReviseCalled(arc, r) ==
    <<[arc |-> arc, before |-> csp.domains, after |-> r.domains,
       returned |-> r.revised, queue |-> arcQueue]>>

\* The body of the while loop (lines 21-32) run on the queue and the CSP c:
\* the revise call made, the CSP and the queue it leaves, and whether line 26
\* returns false.
Iteration(queue, c) ==
    LET arc == Head(queue)
        prunedVariable == arc.relation[1]
        r == revise(arc, c)
        pruned == [c EXCEPT !.domains = r.domains]
    IN  [arc |-> arc,
         revise |-> r,
         csp |-> pruned,
         returnsFalse |-> r.revised /\ Wipeout(r.domains[prunedVariable]),
         arcQueue |->
            IF r.revised /\ ~Wipeout(r.domains[prunedVariable])
                THEN Shifted(queue) \o arcsWithRespectTo(prunedVariable, pruned)
                ELSE Shifted(queue)]

\* The while loop (lines 20-35) run to its return on the queue and the CSP c.
RECURSIVE Ac3Loop(_, _)
Ac3Loop(queue, c) ==
    IF Len(queue) = 0 THEN [returned |-> TRUE, csp |-> c]
    ELSE LET it == Iteration(queue, c)
         IN  IF it.returnsFalse
                THEN [returned |-> FALSE, csp |-> it.csp]
                ELSE Ac3Loop(it.arcQueue, it.csp)

\* ac3 (lines 17-36) as a function of the CSP: the value returned and the CSP
\* left.  Used for the calls on CSPs other than the caller's.
ac3(c) == Ac3Loop(makeArcsSymmetric(c.arcs), c)

\* One iteration of the while loop (lines 20-33).
Ac3Iterate ==
    /\ pc = "loop"
    /\ Len(arcQueue) > 0
    /\ \E it \in {Iteration(arcQueue, csp)} :
           /\ csp' = it.csp
           /\ revised' = ReviseCalled(it.arc, it.revise)
           /\ arcQueue' = it.arcQueue
           /\ IF it.returnsFalse
                THEN /\ pc' = "done"
                     /\ result' = FALSE
                ELSE UNCHANGED <<pc, result>>
    /\ UNCHANGED <<calls, initial, first>>

\* Variant of Ac3ReturnTrue: line 35 is missing and the call returns
\* undefined, which a caller's test reads as false.
Ac3ReturnUndefined ==
    /\ pc = "loop"
    /\ Len(arcQueue) = 0
    /\ pc' = "done"
    /\ result' = FALSE
    /\ UNCHANGED <<csp, arcQueue, calls, initial, first, revised>>

\* The loop ends with an empty queue (line 35).
Ac3ReturnTrue ==
    /\ pc = "loop"
    /\ Len(arcQueue) = 0
    /\ pc' = "done"
    /\ result' = TRUE
    /\ UNCHANGED <<csp, arcQueue, calls, initial, first, revised>>

Next == Ac3Call \/ Ac3Iterate \/ Ac3ReturnTrue

Spec == Init /\ [][Next]_vars

\* ---------------------------------------------- termination of ac3
\* A domain written as a caller usually writes it: increasing, no duplicates.
Increasing(domain) ==
    \A i \in 1 .. Len(domain) : \A j \in 1 .. Len(domain) :
        i < j => domain[i] < domain[j]

InitIncreasing ==
    /\ Init
    /\ \A v \in DOMAIN csp.domains : Increasing(csp.domains[v])

\* ac3 is a synchronous loop: a call that can take a step takes it.
FairSpec == InitIncreasing /\ [][Next]_vars /\ WF_vars(Next)

\* ------------------------------------- revise and makeArcsSymmetric alone
\* A caller about to call revise(arc, csp) with any one arc and any domains
\* of its two variables, or makeArcsSymmetric(arcs) with any arcs.
InitFunction ==
    /\ \/ /\ \E arc \in Arc :
                \E domains \in [Named(<<arc>>) -> SeqsUpTo(Val, MaxLen)] :
                    csp = [domains |-> domains, arcs |-> <<arc>>]
          /\ pc = "revise"
       \/ /\ \E arcs \in SeqsUpTo(InputArc, MaxArcs) :
                csp = [domains |-> [v \in Named(arcs) |-> <<>>], arcs |-> arcs]
          /\ pc = "makeArcsSymmetric"
    /\ Idle

\* revise(csp.arcs[0], csp) (lines 68-86)
ReviseCall ==
    /\ pc = "revise"
    /\ LET arc == csp.arcs[1]
           r == revise(arc, csp)
       IN  /\ csp' = [csp EXCEPT !.domains = r.domains]
           /\ revised' = ReviseCalled(arc, r)
           /\ result' = r.revised
    /\ pc' = "revise returned"
    /\ UNCHANGED <<arcQueue, calls, initial, first>>

\* makeArcsSymmetric(csp.arcs) (lines 43-56)
SymmetricCall ==
    /\ pc = "makeArcsSymmetric"
    /\ arcQueue' = makeArcsSymmetric(csp.arcs)
    /\ pc' = "makeArcsSymmetric returned"
    /\ UNCHANGED <<csp, result, calls, initial, first, revised>>

NextFunction == ReviseCall \/ SymmetricCall

FunctionSpec == InitFunction /\ [][NextFunction]_vars

\* ------------------------------------------------------------ properties
\* The value p of the pruned variable has a compatible value in the respect
\* variable's domain under the arc's constraint.
Supported(arc, p, respectDomain) ==
    \E r \in Range(respectDomain) : Call(arc.constraint, p, r)

ArcConsistent(arc, domains) ==
    \A p \in Range(domains[arc.relation[1]]) :
        Supported(arc, p, domains[arc.relation[2]])

\* s is t with some elements left out.
RECURSIVE IsSubsequence(_, _)
IsSubsequence(s, t) ==
    IF s = <<>> THEN TRUE
    ELSE IF t = <<>> THEN FALSE
    ELSE IF Head(s) = Head(t) THEN IsSubsequence(Tail(s), Tail(t))
    ELSE IsSubsequence(s, Tail(t))

\* Some domain lost a value and kept another.
SomeDomainPruned ==
    \E v \in DOMAIN csp.domains :
        /\ Len(csp.domains[v]) < Len(initial.domains[v])
        /\ Len(csp.domains[v]) > 0

\* C1: whenever ac3 returns true, every arc of csp.arcs and every synthesized
\* reverse arc is consistent: each value left in the pruned variable's domain
\* has a compatible value in the respect variable's domain.
C1_ArcConsistentOnTrue ==
    (pc = "done" /\ result = TRUE) =>
        LET symmetric == makeArcsSymmetric(csp.arcs)
        IN  \A i \in 1 .. Len(symmetric) : ArcConsistent(symmetric[i], csp.domains)

\* The total assignments that pick a value of each initial domain and satisfy
\* every arc of csp.arcs.
Solutions ==
    {s \in [DOMAIN initial.domains -> Val] :
        /\ \A v \in DOMAIN initial.domains : s[v] \in Range(initial.domains[v])
        /\ \A i \in 1 .. Len(initial.arcs) :
              Call(initial.arcs[i].constraint,
                   s[initial.arcs[i].relation[1]], s[initial.arcs[i].relation[2]])}

\* C2: when the first call of ac3 returns, every solution of the initial CSP
\* makes the return value true and has each of its values still in its
\* variable's domain.
C2_SolutionsSurvive ==
    (pc = "done" /\ calls = 1) =>
        \A s \in Solutions :
            /\ result = TRUE
            /\ \A v \in DOMAIN csp.domains : s[v] \in Range(csp.domains[v])

\* C3: a second call of ac3, made after the first returned true, returns true
\* and leaves every domain as the first call left it.
C3_Idempotent ==
    (pc = "done" /\ calls = 2) =>
        /\ result = TRUE
        /\ csp.domains = first[1]

\* C4: every value that a call of revise removed from P's domain had no
\* compatible value in R's domain as it was when the call began.
C4_RemovedWereUnsupported ==
    pc = "revise returned" =>
        LET call == revised[1]
            P == call.arc.relation[1]
            R == call.arc.relation[2]
        IN  \A p \in Range(call.before[P]) \ Range(call.after[P]) :
                ~Supported(call.arc, p, call.before[R])

\* C5: after a call of revise, every value left in P's domain has a compatible
\* value in R's domain as it was when the call began (for a self-arc, P's own
\* domain before the call).
C5_RemainingAreSupported ==
    pc = "revise returned" =>
        LET call == revised[1]
            P == call.arc.relation[1]
            R == call.arc.relation[2]
        IN  \A p \in Range(call.after[P]) : Supported(call.arc, p, call.before[R])

\* A self-arc was revised, a value was removed and a value was kept whose only
\* compatible values were removed by the same call.
C5_Witness ==
    /\ pc = "revise returned"
    /\ LET call == revised[1]
           P == call.arc.relation[1]
           R == call.arc.relation[2]
       IN  /\ P = R
           /\ call.returned
           /\ \E p \in Range(call.after[P]) : ~Supported(call.arc, p, call.after[R])

C7_DomainsOnlyShrink ==
    /\ \A v \in DOMAIN csp.domains :
          IsSubsequence(csp.domains[v], initial.domains[v])
    /\ revised # <<>> =>
          \A v \in DOMAIN csp.domains :
              IsSubsequence(revised[1].after[v], revised[1].before[v])

\* ac3 returned false after a revise that shortened a domain which an earlier
\* revise had already shortened.
C7_Witness ==
    /\ pc = "done"
    /\ result = FALSE
    /\ revised # <<>>
    /\ LET P == revised[1].arc.relation[1]
       IN  /\ Len(revised[1].after[P]) < Len(revised[1].before[P])
           /\ Len(revised[1].before[P]) < Len(initial.domains[P])

\* The constraint is false for every pair of values.
Unsatisfiable(constraint) ==
    \A x \in Val : \A y \in Val : ~Call(constraint, x, y)

\* An arc of csp.arcs has an unsatisfiable constraint and its two variables
\* start with non-empty domains.
HasHopelessArc ==
    \E i \in 1 .. Len(initial.arcs) :
        /\ Unsatisfiable(initial.arcs[i].constraint)
        /\ initial.domains[initial.arcs[i].relation[1]] # <<>>
        /\ initial.domains[initial.arcs[i].relation[2]] # <<>>

\* C8: when csp.arcs has an arc whose constraint is false for every pair of
\* values and whose two variables start with non-empty domains, ac3 returns
\* false.
C8_WipeoutDetected ==
    (pc = "done" /\ calls = 1 /\ HasHopelessArc) => result = FALSE

\* ac3 returned false on the unsatisfiable arc, which came second in csp.arcs,
\* after the revise of the first arc had pruned a domain.
C8_Witness ==
    /\ pc = "done"
    /\ result = FALSE
    /\ HasHopelessArc
    /\ Len(initial.arcs) = 2
    /\ ~Unsatisfiable(initial.arcs[1].constraint)
    /\ revised[1].arc = initial.arcs[2]
    /\ \E v \in DOMAIN csp.domains :
          /\ v # revised[1].arc.relation[1]
          /\ Len(csp.domains[v]) < Len(initial.domains[v])

\* C9: every call of ac3 returns.
C9_Terminates == (pc = "loop") ~> (pc = "done")

\* The first call of ac3 has returned true after pruning a domain.
C9_Witness ==
    /\ pc = "done"
    /\ calls = 1
    /\ result = TRUE
    /\ arcQueue = <<>>
    /\ SomeDomainPruned

\* C10: makeArcsSymmetric returns the n input arcs in their order followed by
\* n reverse arcs, the arc at n+i having the relation of input arc i reversed
\* and a constraint that holds of (x, y) exactly when the constraint of input
\* arc i holds of (y, x); the input sequence is left as it was.
C10_SymmetricOutput ==
    pc = "makeArcsSymmetric returned" =>
        LET n == Len(initial.arcs)
        IN  /\ csp.arcs = initial.arcs
            /\ Len(arcQueue) = 2 * n
            /\ \A i \in 1 .. n :
                  /\ arcQueue[i] = initial.arcs[i]
                  /\ arcQueue[n + i].relation =
                        <<initial.arcs[i].relation[2], initial.arcs[i].relation[1]>>
                  /\ \A x \in Val : \A y \in Val :
                        Call(arcQueue[n + i].constraint, x, y)
                            <=> Call(initial.arcs[i].constraint, y, x)

\* makeArcsSymmetric was given an arc with an asymmetric constraint followed
\* by an arc of the reverse relation.
C10_Witness ==
    /\ pc = "makeArcsSymmetric returned"
    /\ Len(initial.arcs) >= 2
    /\ initial.arcs[1].constraint.fn = "lt"
    /\ initial.arcs[1].relation[1] # initial.arcs[1].relation[2]
    /\ initial.arcs[2].relation =
          <<initial.arcs[1].relation[2], initial.arcs[1].relation[1]>>
    /\ Len(arcQueue) = 2 * Len(initial.arcs)

\* The sequences that list the elements of s in some order.
Reorderings(s) ==
    {[i \in 1 .. Len(s) |-> s[f[i]]] :
        f \in {g \in [1 .. Len(s) -> 1 .. Len(s)] :
                  \A i \in 1 .. Len(s) : \E j \in 1 .. Len(s) : g[j] = i}}

\* C11: when the first call of ac3 returns, ac3 on the same initial CSP with
\* csp.arcs listed in any other order returns the same boolean, and when that
\* is true it leaves the same domains.
C11_OrderIndependent ==
    (pc = "done" /\ calls = 1) =>
        \A arcs \in Reorderings(initial.arcs) :
            LET other == ac3([initial EXCEPT !.arcs = arcs])
            IN  /\ other.returned = result
                /\ result = TRUE => other.csp.domains = csp.domains

\* The CSP has one arc, between two variables of which one starts with an
\* empty domain and the other with a non-empty one.
OneArcOneEmpty ==
    /\ Len(initial.arcs) = 1
    /\ initial.arcs[1].relation[1] # initial.arcs[1].relation[2]
    /\ \E v \in DOMAIN initial.domains : initial.domains[v] = <<>>
    /\ \E v \in DOMAIN initial.domains : initial.domains[v] # <<>>

EmptyVariable == CHOOSE v \in DOMAIN initial.domains : initial.domains[v] = <<>>

FilledVariable == CHOOSE v \in DOMAIN initial.domains : initial.domains[v] # <<>>

\* C12 as claimed: on such a CSP ac3 returns false at the revise of the first
\* arc taken from the worklist, by the length test on the domain that started
\* empty.
C12_FalseAtFirstReviseOnEmpty ==
    (pc = "done" /\ calls = 1 /\ OneArcOneEmpty) =>
        /\ result = FALSE
        /\ revised[1].queue = makeArcsSymmetric(initial.arcs)
        /\ revised[1].arc.relation[1] = EmptyVariable

\* C12: on such a CSP ac3 returns false, and it does so at the revise of the
\* arc whose pruned variable is the one that started non-empty, which that
\* revise empties: the first arc taken when csp.arcs has that arc, the second
\* (the synthesized reverse) otherwise, after a revise of the empty domain
\* that returned false.
C12_FalseWhenOtherDomainWiped ==
    (pc = "done" /\ calls = 1 /\ OneArcOneEmpty) =>
        LET call == revised[1]
            symmetric == makeArcsSymmetric(initial.arcs)
        IN  /\ result = FALSE
            /\ call.arc.relation = <<FilledVariable, EmptyVariable>>
            /\ call.returned
            /\ call.after[FilledVariable] = <<>>
            /\ call.queue = IF initial.arcs[1].relation[1] = FilledVariable
                                THEN symmetric
                                ELSE Tail(symmetric)

\* ac3 returned false on a one-arc CSP whose arc has the empty domain on its
\* pruned side: the wipeout came at the second revise.
C12_Witness ==
    /\ pc = "done"
    /\ calls = 1
    /\ OneArcOneEmpty
    /\ initial.arcs[1].relation[1] = EmptyVariable
    /\ result = FALSE
    /\ Len(revised[1].queue) = 1

\* C13: on a CSP without arcs ac3 returns true without a call of revise and
\* leaves the CSP as it was.
C13_NoArcsNoChange ==
    (pc = "done" /\ calls = 1 /\ initial.arcs = <<>>) =>
        /\ result = TRUE
        /\ revised = <<>>
        /\ csp = initial

\* ac3 returned on a CSP without arcs whose variable has a domain of two
\* values.
C13_Witness ==
    /\ pc = "done"
    /\ calls = 1
    /\ initial.arcs = <<>>
    /\ \E v \in DOMAIN csp.domains : Len(csp.domains[v]) = 2

\* C14: after an iteration that does not return, the worklist is the rest of
\* the worklist the arc was taken from, followed, when revise returned true,
\* by every arc of the symmetrized arc set whose respect variable is the
\* pruned variable, and by nothing when revise returned false.
C14_ReenqueuePolicy ==
    (pc = "loop" /\ calls = 1 /\ revised # <<>>) =>
        LET call == revised[1]
            prunedVariable == call.arc.relation[1]
        IN  arcQueue =
                IF call.returned
                    THEN Tail(call.queue) \o
                         SelectSeq(makeArcsSymmetric(csp.arcs),
                                   LAMBDA arc : arc.relation[2] = prunedVariable)
                    ELSE Tail(call.queue)

\* The last call of revise returned true and left its pruned variable with
\* an empty domain.
LastReviseWiped ==
    /\ revised # <<>>
    /\ revised[1].returned
    /\ revised[1].after[revised[1].arc.relation[1]] = <<>>

\* C15: ac3 has returned false exactly when the last call of revise returned
\* true and emptied its pruned domain; it returned at that step, with the
\* rest of the worklist unrevised and the domains as that revise left them.
C15_FalseOnWipeoutOnly ==
    /\ (pc = "done" /\ result = FALSE) <=> LastReviseWiped
    /\ (pc = "done" /\ result = FALSE) =>
          /\ csp.domains = revised[1].after
          /\ arcQueue = Tail(revised[1].queue)

\* ac3 returned false with arcs left in the worklist, after it had pruned
\* another variable's domain to a shorter non-empty one.
C15_Witness ==
    /\ pc = "done"
    /\ result = FALSE
    /\ arcQueue # <<>>
    /\ \E v \in DOMAIN csp.domains :
          /\ csp.domains[v] # <<>>
          /\ Len(csp.domains[v]) < Len(initial.domains[v])

C17_KeepsSupportedOccurrences ==
    pc = "revise returned" =>
        LET call == revised[1]
            prunedVariable == call.arc.relation[1]
            respectVariable == call.arc.relation[2]
            marked == ValuesToRemove(call.arc, call.before[prunedVariable],
                                     call.before[respectVariable])
        IN  /\ call.after[prunedVariable] =
                  SelectSeq(call.before[prunedVariable], LAMBDA val : val \notin marked)
            /\ call.after[prunedVariable] =
                  SelectSeq(call.before[prunedVariable],
                            LAMBDA val : Supported(call.arc, val, call.before[respectVariable]))

\* C18: the worklist starts as the input arcs in the order supplied followed
\* by their reverses in the same order; each revise is of the arc at the
\* front of the worklist, and the worklist after it is the rest of that
\* worklist with the re-enqueued arcs, if any, behind it.
C18_WorklistFifo ==
    /\ (pc = "loop" /\ revised = <<>>) =>
          arcQueue = csp.arcs \o
              [i \in 1 .. Len(csp.arcs) |->
                  [relation |-> <<csp.arcs[i].relation[2], csp.arcs[i].relation[1]>>,
                   constraint |-> Swapped(csp.arcs[i].constraint)]]
    /\ revised # <<>> =>
          LET call == revised[1]
          IN  /\ call.arc = Head(call.queue)
              /\ Len(arcQueue) >= Len(call.queue) - 1
              /\ SubSeq(arcQueue, 1, Len(call.queue) - 1) = Tail(call.queue)

\* An iteration on a CSP of two input arcs took the front arc of a worklist
\* of several arcs and appended arcs behind the rest.
C18_Witness ==
    /\ pc = "loop"
    /\ Len(csp.arcs) = 2
    /\ revised # <<>>
    /\ Len(revised[1].queue) >= 2
    /\ Len(arcQueue) >= Len(revised[1].queue)

\* C19: while ac3 loops, every arc of csp.arcs that is not in the worklist is
\* consistent, and when ac3 has returned true every arc of csp.arcs is.
C19_InputArcsConsistent ==
    /\ pc = "loop" =>
          \A i \in 1 .. Len(csp.arcs) :
              csp.arcs[i] \notin Range(arcQueue) =>
                  ArcConsistent(csp.arcs[i], csp.domains)
    /\ (pc = "done" /\ result = TRUE) =>
          \A i \in 1 .. Len(csp.arcs) : ArcConsistent(csp.arcs[i], csp.domains)

\* ac3 returned true after pruning a domain, with every input arc consistent
\* and a synthesized reverse arc that is not.
C19_Witness ==
    /\ pc = "done"
    /\ result = TRUE
    /\ calls = 1
    /\ SomeDomainPruned
    /\ \E i \in 1 .. Len(csp.arcs) :
          ~ArcConsistent(Reversed(csp.arcs[i]), csp.domains)

AllNonEmptyInitially ==
    \A v \in DOMAIN initial.domains : initial.domains[v] # <<>>

\* C20: when ac3 is called with every domain non-empty, no domain is empty
\* while it loops or when it has returned true, and when it has returned
\* false the one empty domain is that of the pruned variable of the last arc
\* revised.
C20_EmptyOnlyOnFalse ==
    (calls = 1 /\ AllNonEmptyInitially) =>
        /\ (pc = "loop" \/ (pc = "done" /\ result = TRUE)) =>
              \A v \in DOMAIN csp.domains : csp.domains[v] # <<>>
        /\ (pc = "done" /\ result = FALSE) =>
              {v \in DOMAIN csp.domains : csp.domains[v] = <<>>} =
                  {revised[1].arc.relation[1]}

\* ac3, called on three variables with non-empty domains, returned false
\* after more than one revise.
C20_Witness ==
    /\ pc = "done"
    /\ result = FALSE
    /\ calls = 1
    /\ AllNonEmptyInitially
    /\ DOMAIN csp.domains = Variables
    /\ revised[1].queue # makeArcsSymmetric(csp.arcs)

====
